---- MODULE Spec2Model ----
(***************************************************************************)
(* Model of the PyBlend dataset-rendering scripts                          *)
(*   src/google-renderer.py, src/shark-render2.py,                         *)
(*   src/render_shark_with_intrinsics.py                                   *)
(* Each script is one sequential function, render_and_save_extrinsics,     *)
(* that drives the host 3D application: configure, clear, load assets,     *)
(* normalize the mesh, then a place/look_at/render/record loop and the     *)
(* manifest write.                                                         *)
(*                                                                         *)
(* Numbers are exact rationals <<n, d>> (d > 0, lowest terms); floating    *)
(* point rounding is not modelled.  Angles drawn at random are given by    *)
(* the tangent of their half angle, so that sine and cosine are rational.  *)
(***************************************************************************)
EXTENDS Integers, Sequences, FiniteSets, TLC

VARIABLES
    script,            \* which of the three scripts runs
    args,              \* parsed command line: num, split, radius, name
    assets,            \* input files present: [obj, texture]
    pc,                \* position in render_and_save_extrinsics
    i,                 \* loop index
    draw,              \* theta, phi drawn in the current iteration
    scene,             \* host scene-mutating calls executed so far, in order
    obj,               \* the imported mesh object: location, scale, bound_box
    camera,            \* camera: location, rotation (look_at result), lens
    disk,              \* output files written: images, manifests, plots, dirs
    lists,             \* extrinsics_list, intrinsics_list, frames_list, camera_positions
    error,             \* the exception that ended the run, or "none"
    twin               \* camera.location of a second run of the same command line, at the same pose

vars == <<script, args, assets, pc, i, draw, scene, obj, camera, disk, lists, error, twin>>

(***************************************************************************)
(* Bounds of the model                                                     *)
(***************************************************************************)
MaxNum == 4        \* largest --num
MinNumNeg == 1     \* --num ranges from -MinNumNeg
MaxRadius == 2     \* largest --radius (google-renderer.py)
MaxCoord == 1      \* mesh coordinates and locations range over -MaxCoord..MaxCoord
MaxScale == 2      \* initial object scale per axis ranges over 1..MaxScale
MaxTan == 2        \* half-angle tangents n/m with |m|, n <= MaxTan

(***************************************************************************)
(* Exact rational arithmetic                                               *)
(***************************************************************************)
Abs(x) == IF x < 0 THEN -x ELSE x

RECURSIVE Gcd(_, _)
Gcd(a, b) == IF b = 0 THEN a ELSE Gcd(b, a % b)

Rat(n, d) ==
    LET g == Gcd(Abs(n), Abs(d))
        s == IF d < 0 THEN -1 ELSE 1
    IN  <<(s * n) \div g, (s * d) \div g>>

R(n) == <<n, 1>>
RAdd(a, b) ==
    LET g == Gcd(a[2], b[2])
    IN  Rat(a[1] * (b[2] \div g) + b[1] * (a[2] \div g), (a[2] \div g) * b[2])
RSub(a, b) == RAdd(a, <<0 - b[1], b[2]>>)
RMul(a, b) ==
    LET g == Gcd(Abs(a[1]), b[2])
        h == Gcd(Abs(b[1]), a[2])
    IN  Rat((a[1] \div g) * (b[1] \div h), (a[2] \div h) * (b[2] \div g))
RDiv(a, b) == RMul(a, Rat(b[2], b[1]))
RLess(a, b) == a[1] * b[2] < b[1] * a[2]
RLeq(a, b) == a[1] * b[2] <= b[1] * a[2]

RMinOf(S) == CHOOSE a \in S : \A b \in S : RLeq(a, b)
RMaxOf(S) == CHOOSE a \in S : \A b \in S : RLeq(b, a)

Axes == 1..3
Origin == <<R(0), R(0), R(0)>>
VSub(u, v) == [k \in Axes |-> RSub(u[k], v[k])]
VScale(c, v) == [k \in Axes |-> RMul(c, v[k])]

(***************************************************************************)
(* Mesh object and normalize_obj (google-renderer.py)                      *)
(***************************************************************************)
\* obj.bound_box: the 8 corners of the local bounding box
BoundBox(o) ==
    { <<x, y, z>> : x \in {o.lo[1], o.hi[1]},
                    y \in {o.lo[2], o.hi[2]},
                    z \in {o.lo[3], o.hi[3]} }

\* obj.matrix_world @ v, for an object that is translated and scaled
MatrixWorld(o, v) == [k \in Axes |-> RAdd(o.location[k], RMul(o.scale[k], v[k]))]

\* np.array([obj.matrix_world @ Vector(corner) for corner in obj.bound_box])
WorldBBox(o) == { MatrixWorld(o, c) : c \in BoundBox(o) }

MinCorner(o) == [k \in Axes |-> RMinOf({ w[k] : w \in WorldBBox(o) })]
MaxCorner(o) == [k \in Axes |-> RMaxOf({ w[k] : w \in WorldBBox(o) })]

\* size = np.max(max_corner - min_corner)
BBoxSize(o) == RMaxOf({ RSub(MaxCorner(o)[k], MinCorner(o)[k]) : k \in Axes })

\* center = (min_corner + max_corner) / 2.0
BBoxCenter(o) == [k \in Axes |-> RDiv(RAdd(MinCorner(o)[k], MaxCorner(o)[k]), R(2))]

\* scale_factor = 1.0 / size
ScaleFactor(o) == RDiv(R(1), BBoxSize(o))

\* obj.location -= center; obj.scale = (scale_factor,) * 3
normalize_obj(o) ==
    [o EXCEPT !.location = VSub(o.location, BBoxCenter(o)),
              !.scale = [k \in Axes |-> ScaleFactor(o)]]

\* obj.location = (0, 0, 0)
ResetLocation(o) == [o EXCEPT !.location = Origin]

Coords == (0 - MaxCoord)..MaxCoord
IntVecs == { <<R(x), R(y), R(z)>> : x \in Coords, y \in Coords, z \in Coords }
ScaleVecs == { <<R(x), R(y), R(z)>> : x \in 1..MaxScale, y \in 1..MaxScale, z \in 1..MaxScale }

\* meshes as the importer may leave them: any location, scale and local box
\* with a positive largest extent
Boxes ==
    { bx \in IntVecs \X IntVecs :
        /\ \A k \in Axes : RLeq(bx[1][k], bx[2][k])
        /\ bx[1] # bx[2] }

Meshes ==
    { [location |-> l, scale |-> s, lo |-> bx[1], hi |-> bx[2]] :
        l \in IntVecs, s \in ScaleVecs, bx \in Boxes }

NoObj == [location |-> Origin, scale |-> <<R(1), R(1), R(1)>>, lo |-> Origin, hi |-> Origin]

\* pyblend.transform.normalize_obj, imported by the two shark scripts: the
\* bounding-box center moves to the origin and the largest extent becomes 1
pyblend_normalize_obj(o) ==
    [o EXCEPT !.location = VScale(ScaleFactor(o), VSub(o.location, BBoxCenter(o))),
              !.scale = VScale(ScaleFactor(o), o.scale)]

(***************************************************************************)
(* Angles and the two camera trajectory generators                         *)
(***************************************************************************)
\* An angle a is <<m, n>> with tan(a/2) = n/m (m = 0: a = pi)
Cos(a) == Rat(a[1] * a[1] - a[2] * a[2], a[1] * a[1] + a[2] * a[2])
Sin(a) == Rat(2 * a[1] * a[2], a[1] * a[1] + a[2] * a[2])

\* np.random.uniform(0, 2 * np.pi): the angles of [0, 2 pi) the model can draw
Thetas ==
    { a \in ((0 - MaxTan)..MaxTan) \X (0..MaxTan) :
        /\ Gcd(Abs(a[1]), a[2]) = 1
        /\ (a[2] = 0 => a[1] = 1) }

\* np.random.uniform(0, np.pi): the angles of [0, pi)
Phis == { a \in Thetas : a[1] >= 1 }

\* the draws used inside whole runs: theta and phi each 0 or pi/2
RunThetas == { <<1, 0>>, <<1, 1>> }
RunPhis == { <<1, 0>>, <<1, 1>> }

\* variant: sin(theta) where x needs cos(theta)
SpherePosSinX(r, theta, phi) ==
    << RMul(RMul(r, Sin(phi)), Sin(theta)),
       RMul(RMul(r, Sin(phi)), Sin(theta)),
       RMul(r, Cos(phi)) >>

\* x = r sin(phi) cos(theta); y = r sin(phi) sin(theta); z = r cos(phi)
SpherePos(r, theta, phi) ==
    << RMul(RMul(r, Sin(phi)), Cos(theta)),
       RMul(RMul(r, Sin(phi)), Sin(theta)),
       RMul(r, Cos(phi)) >>

\* variant: the factor 2 dropped
HeightStepHalf(radius, n) == RDiv(radius, R(n))
\* height_step = 2 * radius / num_cameras
HeightStep(radius, n) == RDiv(RMul(R(2), radius), R(n))

\* np.linspace(0, 2 * np.pi, n, endpoint=False)[k], in turns (units of 2 pi)
Linspace(n, k) == RMul(R(k), RDiv(R(1), R(n)))

\* height = i * height_step - radius
SpiralHeight(radius, n, k) == RSub(RMul(R(k), HeightStep(radius, n)), radius)

\* radius * np.cos(angle), radius * np.sin(angle): kept symbolic, the angle in turns
RCos(radius, turn) == [f |-> "cos", r |-> radius, turn |-> turn]
RSin(radius, turn) == [f |-> "sin", r |-> radius, turn |-> turn]

SpiralPos(radius, n, k) ==
    << RCos(radius, Linspace(n, k)), RSin(radius, Linspace(n, k)), SpiralHeight(radius, n, k) >>

(***************************************************************************)
(* Names and paths.  A path is the sequence of its components.             *)
(***************************************************************************)
Digit(d) ==
    CASE d = 0 -> "0" [] d = 1 -> "1" [] d = 2 -> "2" [] d = 3 -> "3" [] d = 4 -> "4"
      [] d = 5 -> "5" [] d = 6 -> "6" [] d = 7 -> "7" [] d = 8 -> "8" [] d = 9 -> "9"

RECURSIVE NatStr(_)
NatStr(n) == IF n < 10 THEN Digit(n) ELSE NatStr(n \div 10) \o Digit(n % 10)

\* str(int)
IntStr(n) == IF n < 0 THEN "-" \o NatStr(0 - n) ELSE NatStr(n)

RECURSIVE ZeroPad(_, _)
ZeroPad(str, width) == IF Len(str) >= width THEN str ELSE ZeroPad("0" \o str, width)

\* variant: no zero padding
FmtNoPad(k) == NatStr(k)
\* f"{i:04d}" for i >= 0
Fmt04d(k) == ZeroPad(NatStr(k), 4)

\* str(float) of a whole number
FloatStr(r) == IntStr(r[1]) \o ".0"

\* variant: the index left out of the name
ImageNameNoIndex(a, k) == a.name \o ".png"
\* f"{args.name}_{i:04d}.png"
ImageName(a, k) == a.name \o "_" \o Fmt04d(k) \o ".png"

\* os.path.join(args.output_dir, f"{args.name}_{args.radius}_{args.num}")
GoogleOutputDir(a) ==
    << "output_dir", a.name \o "_" \o FloatStr(a.radius) \o "_" \o IntStr(a.num) >>

\* the directory the script creates with os.makedirs
OutputDir(s, a) ==
    CASE s = "google" -> GoogleOutputDir(a)
      [] s = "shark2" -> << "tmp", a.name, a.split >>
      [] s = "intrinsics" -> << "tmp", "multiview" >>

\* render_image_path
RenderImagePath(s, a, k) ==
    CASE s = "google" -> GoogleOutputDir(a) \o << a.split, ImageName(a, k) >>
      [] s = "shark2" -> << "tmp", a.name, a.split, ImageName(a, k) >>
      [] s = "intrinsics" -> << "tmp", "multiview", ImageName(a, k) >>

\* variant: the split directory left out
FramePathNoSplit(a, k) == << ".", ImageName(a, k) >>
\* the frame record's "file_path": f"./{args.split}/{args.name}_{i:04d}.png"
FramePath(a, k) == << ".", a.split, ImageName(a, k) >>

\* the manifest written after the loop
ManifestPath(s, a) ==
    CASE s = "google" -> GoogleOutputDir(a) \o << "transforms_" \o a.split \o ".json" >>
      [] s = "shark2" -> << "tmp", a.name, "transforms_" \o a.split \o ".json" >>
      [] s = "intrinsics" -> << "tmp", "multiview", a.name \o "_extrinsics.json" >>

IntrinsicsPath(a) == << "tmp", "multiview", a.name \o "_intrinsics.json" >>

PlotPath(a) == GoogleOutputDir(a) \o << "plot_" \o a.split \o ".html" >>

(***************************************************************************)
(* render_and_save_extrinsics as a sequence of steps                       *)
(***************************************************************************)
Scripts == { "google", "shark2", "intrinsics" }

\* variant: the render call moved before look_at
LoopBodyRenderFirst == << "place", "render", "look_at", "record" >>
\* the loop body, in source order
LoopBody == << "place", "look_at", "render", "record" >>

\* steps before the loop
PrologueGoogle ==
    << "config_render", "clear_all", "config_world", "check_obj", "check_texture",
       "load_texture", "load_obj", "normalize_obj", "reset_location",
       "assign_material", "create_light", "track_to", "makedirs", "loop_entry" >>
PrologueShark2 ==
    << "config_render", "clear_all", "config_world", "load_texture", "load_obj",
       "normalize_obj", "reset_location", "assign_material", "create_light",
       "track_to", "makedirs", "loop_entry" >>
PrologueIntrinsics ==
    << "config_render", "clear_all", "config_world", "load_texture", "load_obj",
       "normalize_obj", "reset_location", "assign_material", "create_light",
       "track_to", "loop_entry" >>

\* steps after the loop
EpilogueGoogle == << "write_manifest", "plot", "done" >>
EpilogueShark2 == << "write_manifest", "done" >>
EpilogueIntrinsics == << "makedirs", "write_manifest", "write_intrinsics", "done" >>

Prologue(s) ==
    CASE s = "google" -> PrologueGoogle
      [] s = "shark2" -> PrologueShark2
      [] s = "intrinsics" -> PrologueIntrinsics
Epilogue(s) ==
    CASE s = "google" -> EpilogueGoogle
      [] s = "shark2" -> EpilogueShark2
      [] s = "intrinsics" -> EpilogueIntrinsics

Program(s) == Prologue(s) \o LoopBody \o Epilogue(s)

IndexOf(seq, x) == CHOOSE k \in 1..Len(seq) : seq[k] = x
Following(seq, x) == seq[IndexOf(seq, x) + 1]

\* variant: an inclusive upper end
InRangeInclusive(k, n) == k <= n
\* for i in range(num): whether index k is in the range
InRange(k, n) == k < n

\* variant: the failure caught and the loop carried on
SkipAndContinue == "record"
\* an exception raised inside the loop is caught nowhere: the run ends
OnRenderError == "aborted"

\* the step that follows step `label`, the loop index being k
After(s, a, label, k) ==
    CASE label = "loop_entry" ->
            IF InRange(0, a.num) THEN LoopBody[1] ELSE Epilogue(s)[1]
      [] label = LoopBody[Len(LoopBody)] ->
            IF InRange(k + 1, a.num) THEN LoopBody[1] ELSE Epilogue(s)[1]
      [] OTHER -> Following(Program(s), label)

\* variants: an existence test left out
NeverMissing(present) == FALSE
ObjCheckSkipped(present) == FALSE
\* if not os.path.exists(...): raise FileNotFoundError
ObjFileMissing(present) == ~present
TextureFileMissing(present) == ~present
\* the same test at the head of load_texture
TextureImageMissing(present) == ~present
\* pyblend.object.load_obj on a missing mesh file
LoadObjMissing(present) == ~present

\* r = 1.5 in the shark scripts, args.radius in google-renderer.py
LoopRadius(s, a) == IF s = "google" THEN a.radius ELSE Rat(3, 2)

\* the split whose branch draws at random
RandomBranch(s, a) == s # "google" \/ a.split = "train"

(***************************************************************************)
(* Camera read-back                                                        *)
(***************************************************************************)
\* pyblend.transform.look_at(camera, target): forward axis from eye to target
look_at(eye, target) == [kind |-> "look_at", eye |-> eye, target |-> target]

\* camera.matrix_world
CameraMatrixWorld(c) == [translation |-> c.location, rotation |-> c.rotation]

\* get_camera_extrinsics(camera)
get_camera_extrinsics(c) == [transform_matrix |-> CameraMatrixWorld(c)]

\* get_camera_intrinsics(camera)
FocalLength35 == 35
get_camera_intrinsics(s, c) ==
    [focal_length |-> IF s = "intrinsics" THEN FocalLength35 ELSE c.lens]

\* get_camera_rotation(camera): the angle of the orientation quaternion
get_camera_rotation(c) == [angle_of |-> c.rotation]

\* frame_info
FrameInfo(s, a, c, k) ==
    CASE s = "google" ->
            [file_path |-> FramePath(a, k),
             rotation |-> get_camera_rotation(c),
             transform_matrix |-> get_camera_extrinsics(c).transform_matrix,
             focal_length |-> get_camera_intrinsics(s, c).focal_length,
             camera_angle_x |-> c.angle_x,
             camera_angle_y |-> c.angle_y]
      [] s = "shark2" ->
            [file_path |-> FramePath(a, k),
             rotation |-> get_camera_rotation(c),
             transform_matrix |-> get_camera_extrinsics(c).transform_matrix]

\* extrinsics, with extrinsics['frame'] set
Extrinsics(a, c, k) ==
    [transform_matrix |-> get_camera_extrinsics(c).transform_matrix,
     frame |-> ImageName(a, k)]

\* what json.dump writes
ManifestData(s, c, l) ==
    CASE s = "google" -> [frames |-> l.frames_list]
      [] s = "shark2" -> [camera_angle_x |-> c.angle_x, frames |-> l.frames_list]
      [] s = "intrinsics" -> [frames |-> l.extrinsics_list]
(***************************************************************************)
(* Initial states: the command lines the argument parsers accept           *)
(***************************************************************************)
Nums == (0 - MinNumNeg)..MaxNum
Names == { "shark_render" }
Radii == { R(r) : r \in 1..MaxRadius }
NoRadius == R(0)

ArgsOf(s) ==
    CASE s = "google" ->
            [num : Nums, split : { "train", "test" }, radius : Radii, name : Names]
      [] s = "shark2" ->
            [num : Nums, split : { "train", "test", "val" }, radius : { NoRadius }, name : Names]
      [] s = "intrinsics" ->
            [num : Nums, split : { "none" }, radius : { NoRadius }, name : Names]

\* two meshes for whole runs: a centered cube, and a box whose origin is a corner
RunMeshes ==
    { [location |-> Origin, scale |-> <<R(1), R(1), R(1)>>,
       lo |-> <<R(-1), R(-1), R(-1)>>, hi |-> <<R(1), R(1), R(1)>>],
      [location |-> <<R(1), R(0), R(0)>>, scale |-> <<R(2), R(2), R(2)>>,
       lo |-> Origin, hi |-> <<R(1), R(1), R(0)>>] }

\* bpy.data.objects["Camera"] before the first placement; the loop assigns its
\* location and rotation before either is read
InitCamera ==
    [location |-> Origin,
     rotation |-> [kind |-> "initial", eye |-> Origin, target |-> Origin],
     lens |-> "lens",
     angle_x |-> "angle_x", angle_y |-> "angle_y"]

EmptyDisk == [files |-> << >>, log |-> << >>, dirs |-> {}]
EmptyLists ==
    [extrinsics_list |-> << >>, intrinsics_list |-> << >>,
     frames_list |-> << >>, camera_positions |-> << >>]

Init ==
    /\ script \in Scripts
    /\ args \in ArgsOf(script)
    /\ assets \in [obj : BOOLEAN, texture : BOOLEAN]
    /\ pc = "config_render"
    /\ i = 0
    /\ draw = << >>
    /\ scene = << >>
    /\ obj = NoObj
    /\ camera = InitCamera
    /\ disk = EmptyDisk
    /\ lists = EmptyLists
    /\ error = "none"
    /\ twin = InitCamera.location

(***************************************************************************)
(* Steps                                                                   *)
(***************************************************************************)
Raise(e) ==
    /\ error' = e
    /\ pc' = "aborted"

Advance == pc' = After(script, args, pc, i)

\* a host call that changes the scene and nothing else of the model
HostCall(label) ==
    /\ pc = label
    /\ scene' = Append(scene, label)
    /\ Advance
    /\ UNCHANGED <<script, args, assets, twin, i, draw, obj, camera, disk, lists, error>>

ConfigRender == HostCall("config_render")
ClearAll == HostCall("clear_all")
ConfigWorld == HostCall("config_world")
AssignMaterial == HostCall("assign_material")
CreateLight == HostCall("create_light")
TrackTo == HostCall("track_to")

CheckObj ==
    /\ pc = "check_obj"
    /\ IF ObjFileMissing(assets.obj)
         THEN Raise("FileNotFoundError")
         ELSE Advance /\ UNCHANGED error
    /\ UNCHANGED <<script, args, assets, twin, i, draw, scene, obj, camera, disk, lists>>

CheckTexture ==
    /\ pc = "check_texture"
    /\ IF TextureFileMissing(assets.texture)
         THEN Raise("FileNotFoundError")
         ELSE Advance /\ UNCHANGED error
    /\ UNCHANGED <<script, args, assets, twin, i, draw, scene, obj, camera, disk, lists>>

LoadTexture ==
    /\ pc = "load_texture"
    /\ IF TextureImageMissing(assets.texture)
         THEN Raise("FileNotFoundError") /\ UNCHANGED scene
         ELSE /\ scene' = Append(scene, "materials.new")
              /\ Advance
              /\ UNCHANGED error
    /\ UNCHANGED <<script, args, assets, twin, i, draw, obj, camera, disk, lists>>

LoadObj(meshes) ==
    /\ pc = "load_obj"
    /\ IF LoadObjMissing(assets.obj)
         THEN Raise("FileNotFoundError") /\ UNCHANGED <<scene, obj>>
         ELSE /\ \E m \in meshes : obj' = m
              /\ scene' = Append(scene, "load_obj")
              /\ Advance
              /\ UNCHANGED error
    /\ UNCHANGED <<script, args, assets, twin, i, draw, camera, disk, lists>>

NormalizeObj ==
    /\ pc = "normalize_obj"
    /\ obj' = IF script = "google" THEN normalize_obj(obj) ELSE pyblend_normalize_obj(obj)
    /\ scene' = Append(scene, "normalize_obj")
    /\ Advance
    /\ UNCHANGED <<script, args, assets, twin, i, draw, camera, disk, lists, error>>

SetLocationOrigin ==
    /\ pc = "reset_location"
    /\ obj' = ResetLocation(obj)
    /\ scene' = Append(scene, "reset_location")
    /\ Advance
    /\ UNCHANGED <<script, args, assets, twin, i, draw, camera, disk, lists, error>>

MakeDirs ==
    /\ pc = "makedirs"
    /\ disk' = [disk EXCEPT !.dirs = @ \cup { OutputDir(script, args) }]
    /\ Advance
    /\ UNCHANGED <<script, args, assets, twin, i, draw, scene, obj, camera, lists, error>>

\* the head of the loop; the spiral branch first divides by num
LoopEntry ==
    /\ pc = "loop_entry"
    /\ IF script = "google" /\ args.split = "test" /\ args.num = 0
         THEN Raise("ZeroDivisionError")
         ELSE Advance /\ UNCHANGED error
    /\ UNCHANGED <<script, args, assets, twin, i, draw, scene, obj, camera, disk, lists>>

\* The second run executes the same statements on the same arguments; where the
\* script draws, its draws are its own.
Place(thetas, phis) ==
    /\ pc = "place"
    /\ IF RandomBranch(script, args)
         THEN /\ \E theta \in thetas, phi \in phis :
                    /\ draw' = << theta, phi >>
                    /\ camera' = [camera EXCEPT
                                    !.location = SpherePos(LoopRadius(script, args), theta, phi)]
              /\ \E theta \in RunThetas, phi \in RunPhis :
                    twin' = SpherePos(LoopRadius(script, args), theta, phi)
         ELSE /\ draw' = draw
              /\ camera' = [camera EXCEPT !.location = SpiralPos(args.radius, args.num, i)]
              /\ twin' = SpiralPos(args.radius, args.num, i)
    /\ Advance
    /\ UNCHANGED <<script, args, assets, i, scene, obj, disk, lists, error>>

LookAt ==
    /\ pc = "look_at"
    /\ camera' = [camera EXCEPT !.rotation = look_at(camera.location, obj.location)]
    /\ Advance
    /\ UNCHANGED <<script, args, assets, twin, i, draw, scene, obj, disk, lists, error>>

WriteFile(d, path, content) ==
    [d EXCEPT !.files = (path :> content) @@ @, !.log = Append(@, path)]

\* pyblend.render.render_image(path): the host renders the current camera view
Render ==
    /\ pc = "render"
    /\ disk' = WriteFile(disk, RenderImagePath(script, args, i),
                         [kind |-> "image", index |-> i, pose |-> CameraMatrixWorld(camera)])
    /\ Advance
    /\ UNCHANGED <<script, args, assets, twin, i, draw, scene, obj, camera, lists, error>>

\* the host render call raises
RenderFails ==
    /\ pc = "render"
    /\ error' = "RenderError"
    /\ pc' = OnRenderError
    /\ UNCHANGED <<script, args, assets, twin, i, draw, scene, obj, camera, disk, lists>>

Record ==
    /\ pc = "record"
    /\ lists' =
         [extrinsics_list |-> Append(lists.extrinsics_list, Extrinsics(args, camera, i)),
          intrinsics_list |-> Append(lists.intrinsics_list, get_camera_intrinsics(script, camera)),
          frames_list |->
              IF script = "intrinsics" THEN lists.frames_list
              ELSE Append(lists.frames_list, FrameInfo(script, args, camera, i)),
          camera_positions |->
              IF script = "google" THEN Append(lists.camera_positions, camera.location)
              ELSE lists.camera_positions]
    /\ Advance
    /\ i' = IF InRange(i + 1, args.num) THEN i + 1 ELSE i
    /\ UNCHANGED <<script, args, assets, twin, draw, scene, obj, camera, disk, error>>

WriteManifest ==
    /\ pc = "write_manifest"
    /\ disk' = WriteFile(disk, ManifestPath(script, args),
                         [kind |-> "json", data |-> ManifestData(script, camera, lists)])
    /\ Advance
    /\ UNCHANGED <<script, args, assets, twin, i, draw, scene, obj, camera, lists, error>>

WriteIntrinsics ==
    /\ pc = "write_intrinsics"
    /\ disk' = WriteFile(disk, IntrinsicsPath(args),
                         [kind |-> "json", data |-> [frames |-> lists.intrinsics_list]])
    /\ Advance
    /\ UNCHANGED <<script, args, assets, twin, i, draw, scene, obj, camera, lists, error>>

Plot ==
    /\ pc = "plot"
    /\ disk' = WriteFile(disk, PlotPath(args),
                         [kind |-> "html", cameras |-> lists.camera_positions])
    /\ Advance
    /\ UNCHANGED <<script, args, assets, twin, i, draw, scene, obj, camera, lists, error>>

Next ==
    \/ ConfigRender
    \/ ClearAll
    \/ ConfigWorld
    \/ CheckObj
    \/ CheckTexture
    \/ LoadTexture
    \/ LoadObj(RunMeshes)
    \/ NormalizeObj
    \/ SetLocationOrigin
    \/ AssignMaterial
    \/ CreateLight
    \/ TrackTo
    \/ MakeDirs
    \/ LoopEntry
    \/ Place(RunThetas, RunPhis)
    \/ LookAt
    \/ Render
    \/ RenderFails
    \/ Record
    \/ WriteManifest
    \/ WriteIntrinsics
    \/ Plot

Spec == Init /\ [][Next]_vars
(***************************************************************************)
(* Normalization over all meshes: google-renderer.py up to the point where *)
(* the object has been normalized and moved to the origin                  *)
(***************************************************************************)
InitNorm ==
    /\ Init
    /\ script = "google"
    /\ args = [num |-> 1, split |-> "train", radius |-> R(1), name |-> "shark_render"]
    /\ assets = [obj |-> TRUE, texture |-> TRUE]

NextNorm ==
    \/ ConfigRender
    \/ ClearAll
    \/ ConfigWorld
    \/ CheckObj
    \/ CheckTexture
    \/ LoadTexture
    \/ LoadObj(Meshes)
    \/ NormalizeObj
    \/ SetLocationOrigin

SpecNorm == InitNorm /\ [][NextNorm]_vars

(***************************************************************************)
(* One-pose runs over all the angles the model can draw                    *)
(***************************************************************************)
InitSphere ==
    /\ Init
    /\ args.num = 1
    /\ assets = [obj |-> TRUE, texture |-> TRUE]

NextSphere ==
    \/ ConfigRender
    \/ ClearAll
    \/ ConfigWorld
    \/ CheckObj
    \/ CheckTexture
    \/ LoadTexture
    \/ LoadObj(RunMeshes)
    \/ NormalizeObj
    \/ SetLocationOrigin
    \/ AssignMaterial
    \/ CreateLight
    \/ TrackTo
    \/ MakeDirs
    \/ LoopEntry
    \/ Place(Thetas, Phis)
    \/ LookAt
    \/ Render
    \/ RenderFails
    \/ Record
    \/ WriteManifest
    \/ WriteIntrinsics
    \/ Plot

SpecSphere == InitSphere /\ [][NextSphere]_vars

(***************************************************************************)
(* Observations used by the properties                                     *)
(***************************************************************************)
Max0(n) == IF n < 0 THEN 0 ELSE n

\* path resolution: the directory of a file, and a relative path under a directory
DirName(p) == SubSeq(p, 1, Len(p) - 1)
RECURSIVE NormPath(_)
NormPath(p) ==
    IF p = << >> THEN << >>
    ELSE IF Head(p) = "." THEN NormPath(Tail(p))
    ELSE << Head(p) >> \o NormPath(Tail(p))
Resolve(dir, rel) == dir \o NormPath(rel)

ManifestWritten == ManifestPath(script, args) \in DOMAIN disk.files
ManifestFrames == disk.files[ManifestPath(script, args)].data.frames

IsImage(path) == disk.files[path].kind = "image"
\* the image files in the order they were rendered
RenderedImages == SelectSeq(disk.log, IsImage)
\* the files written that are not rendered images
OtherFiles == { path \in DOMAIN disk.files : ~IsImage(path) }

Running == pc \notin { "aborted", "done" }
StepIndex(label) == IndexOf(Program(script), label)
PastReset == pc = "done" \/ (Running /\ StepIndex(pc) > StepIndex("reset_location"))

MissingAsset == ~assets.obj \/ ~assets.texture
SceneConfigured == << "config_render", "clear_all", "config_world" >>

Norm2(v) == RAdd(RAdd(RMul(v[1], v[1]), RMul(v[2], v[2])), RMul(v[3], v[3]))

\* position in disk.log of the first write of path
FirstWrite(path) == CHOOSE k \in 1..Len(disk.log) :
    disk.log[k] = path /\ \A j \in 1..(k - 1) : disk.log[j] # path
LastWrite(path) == CHOOSE k \in 1..Len(disk.log) :
    disk.log[k] = path /\ \A j \in (k + 1)..Len(disk.log) : disk.log[j] # path

(***************************************************************************)
(* Properties                                                              *)
(***************************************************************************)

\* C1 (as stated): whenever the manifest has been written, the number of frame
\* records in it equals the requested image count num, for every num the parser
\* accepts, negative ones included.
C1_CountEqualsNum ==
    ManifestWritten => Len(ManifestFrames) = args.num

\* C1 (amended): whenever the manifest has been written, the number of frame
\* records in it equals num when num >= 0 and is 0 when num is negative.
C1_CountIsRangeLength ==
    ManifestWritten => Len(ManifestFrames) = Max0(args.num)

C1_Witness ==
    /\ ManifestWritten
    /\ script = "google"
    /\ args.split = "test"
    /\ args.num = 2
    /\ Len(ManifestFrames) = 2

\* C2: once normalize_obj(obj) and obj.location = (0, 0, 0) have run, the
\* world-space bounding-box center of the mesh is the origin and its largest
\* axis-aligned extent is 1, whatever the mesh's initial location, scale and
\* local bounding box.
C2_NormalizedAtOrigin ==
    (script = "google" /\ PastReset) =>
        /\ BBoxCenter(obj) = Origin
        /\ BBoxSize(obj) = R(1)

\* C3: in the spiral branch with num = N >= 1 and radius > 0, pose k has height
\* k * (2 radius / N) - radius and angle k / N of a turn: the heights increase
\* strictly from -radius, stay below +radius and end at radius - 2 radius / N.
C3_SpiralSequence ==
    (script = "google" /\ args.split = "test" /\ args.num >= 1 /\ RLess(R(0), args.radius)) =>
        LET cams == lists.camera_positions
            N == args.num
            r == args.radius
        IN  /\ \A k \in 1..Len(cams) :
                /\ RMul(cams[k][3], R(N)) = RSub(RMul(R(2 * (k - 1)), r), RMul(R(N), r))
                /\ RLess(cams[k][3], r)
                /\ cams[k][1] = RCos(r, Rat(k - 1, N))
                /\ cams[k][2] = RSin(r, Rat(k - 1, N))
                /\ RLeq(R(0), cams[k][1].turn) /\ RLess(cams[k][1].turn, R(1))
                /\ k > 1 => /\ RLess(cams[k - 1][3], cams[k][3])
                            /\ RSub(cams[k][3], cams[k - 1][3]) = RDiv(RMul(R(2), r), R(N))
                            /\ RSub(cams[k][1].turn, cams[k - 1][1].turn) = Rat(1, N)
            /\ Len(cams) >= 1 => cams[1][3] = RSub(R(0), r)
            /\ Len(cams) = N => cams[N][3] = RSub(r, RDiv(RMul(R(2), r), R(N)))
            /\ Len(cams) <= N

C3_Witness ==
    /\ script = "google"
    /\ args.split = "test"
    /\ args.num = 4
    /\ args.radius = R(2)
    /\ pc = "done"
    /\ [k \in 1..4 |-> lists.camera_positions[k][3]] = << R(-2), R(-1), R(0), R(1) >>
    /\ [k \in 1..4 |-> lists.camera_positions[k][1].turn] = << R(0), Rat(1, 4), Rat(1, 2), Rat(3, 4) >>

\* C4: when the mesh file or the texture file is missing the run never gets past
\* the asset loading steps: it ends with FileNotFoundError, no render call is
\* made and no file (image, manifest, plot) has been written.
C4_MissingAssetFailsFast ==
    MissingAsset =>
        /\ disk = EmptyDisk
        /\ pc # "done"
        /\ Running => StepIndex(pc) <= StepIndex("load_obj")
        /\ pc = "aborted" => error = "FileNotFoundError"
        /\ lists = EmptyLists

C4_Witness ==
    /\ script = "shark2"
    /\ ~assets.texture
    /\ assets.obj
    /\ pc = "aborted"
    /\ error = "FileNotFoundError"
    /\ disk.files = << >>

C6_ImagesInIndexOrder ==
    (pc = "done" /\ args.num >= 0) =>
        /\ Len(RenderedImages) = args.num
        /\ \A k \in 1..Len(RenderedImages) :
            /\ RenderedImages[k] = RenderImagePath(script, args, k - 1)
            /\ disk.files[RenderedImages[k]].index = k - 1
            /\ RenderedImages[k][Len(RenderedImages[k])] = ImageName(args, k - 1)
            /\ \A j \in 1..Len(RenderedImages) : j # k => RenderedImages[j] # RenderedImages[k]
        /\ \A k \in 1..Max0(args.num) : k <= 4 =>
            ImageName(args, k - 1) =
                args.name \o << "_0000.png", "_0001.png", "_0002.png", "_0003.png" >>[k]
        /\ Len(ManifestFrames) = args.num
        /\ \A k \in 1..Len(ManifestFrames) :
            IF script = "intrinsics"
              THEN ManifestFrames[k].frame = ImageName(args, k - 1)
              ELSE ManifestFrames[k].file_path = << ".", args.split, ImageName(args, k - 1) >>

C6_Witness ==
    /\ pc = "done"
    /\ args.num = 4
    /\ script = "google"
    /\ args.split = "test"
    /\ [k \in 1..4 |-> RenderedImages[k][4]] =
         << "shark_render_0000.png", "shark_render_0001.png",
            "shark_render_0002.png", "shark_render_0003.png" >>

\* C7: in the random-sphere branch the camera position generated from any draw
\* of theta in [0, 2 pi) and phi in [0, pi) is at distance radius from the
\* origin (radius > 0): its squared norm is radius squared.
C7_OnSphere ==
    (RandomBranch(script, args) /\ pc \in { "look_at", "render", "record" }) =>
        /\ camera.location = SpherePos(LoopRadius(script, args), draw[1], draw[2])
        /\ Norm2(camera.location) = RMul(LoopRadius(script, args), LoopRadius(script, args))
        /\ RLess(R(0), LoopRadius(script, args))

C7_Witness ==
    /\ script = "google"
    /\ args.split = "train"
    /\ args.radius = R(2)
    /\ pc = "look_at"
    /\ draw = << << -1, 2 >>, << 2, 1 >> >>
    /\ camera.location = << Rat(-24, 25), Rat(-32, 25), Rat(6, 5) >>

\* C8 (as stated): when the run aborts on a missing asset no scene-mutating host
\* call has been executed.
C8_NoMutationBeforeAbort ==
    error = "FileNotFoundError" => scene = << >>

\* C8 (amended): when the run aborts on a missing asset, render configuration,
\* scene clear and world configuration have been executed; the mesh has not been
\* imported and nothing after the import has run.  In google-renderer.py no
\* material has been created either; in the two shark scripts a missing mesh is
\* found only after the texture material has been created.
C8_AbortAfterConfigOnly ==
    error = "FileNotFoundError" =>
        /\ MissingAsset
        /\ obj = NoObj
        /\ camera = InitCamera
        /\ disk = EmptyDisk
        /\ IF script # "google" /\ assets.texture
             THEN scene = Append(SceneConfigured, "materials.new")
             ELSE scene = SceneConfigured

C8_Witness ==
    /\ error = "FileNotFoundError"
    /\ script = "google"
    /\ ~assets.obj
    /\ assets.texture
    /\ scene = << "config_render", "clear_all", "config_world" >>

\* C9: when the host render call fails at pose k the run ends there: nothing
\* further is enabled (no later pose, no retry), the images of poses 0 .. k-1
\* and only those are on disk, and no manifest or plot is written.  A manifest
\* is written at most once, and only after all renders have succeeded.
C9_RenderFailureEndsRun ==
    /\ error = "RenderError" =>
        /\ pc = "aborted"
        /\ ~ENABLED Next
        /\ OtherFiles = {}
        /\ Len(RenderedImages) = i
        /\ \A k \in 1..i : RenderedImages[k] = RenderImagePath(script, args, k - 1)
        /\ Len(lists.extrinsics_list) = i
        /\ i < args.num
    /\ ManifestWritten =>
        /\ error = "none"
        /\ Len(RenderedImages) = Max0(args.num)
        /\ FirstWrite(ManifestPath(script, args)) = LastWrite(ManifestPath(script, args))

C9_Witness ==
    /\ error = "RenderError"
    /\ script = "google"
    /\ args.num = 4
    /\ i = 2
    /\ Len(RenderedImages) = 2
    /\ ~ManifestWritten

\* C10: in every iteration the camera location is assigned, then the
\* orientation recomputed by look_at, then image i rendered, then the camera
\* read back and the record appended; the camera does not change between the
\* render of image i and the read-back, so every record holds the transform
\* with which its image was rendered.
C10_RecordHoldsRenderedPose ==
    /\ pc = "render" =>
        /\ camera.rotation = look_at(camera.location, obj.location)
        /\ Len(RenderedImages) = i
    /\ pc = "record" =>
        /\ Len(RenderedImages) = i + 1
        /\ Len(lists.extrinsics_list) = i
        /\ disk.files[RenderImagePath(script, args, i)].pose = CameraMatrixWorld(camera)
        /\ camera.rotation = look_at(camera.location, obj.location)
    /\ \A k \in 1..Len(lists.extrinsics_list) :
        lists.extrinsics_list[k].transform_matrix =
            disk.files[RenderImagePath(script, args, k - 1)].pose
    /\ \A k \in 1..Len(lists.frames_list) :
        /\ lists.frames_list[k].transform_matrix =
            disk.files[RenderImagePath(script, args, k - 1)].pose
        /\ lists.frames_list[k].transform_matrix.rotation =
            look_at(lists.frames_list[k].transform_matrix.translation, Origin)

C10_Witness ==
    /\ pc = "done"
    /\ script = "shark2"
    /\ Len(lists.frames_list) = 3
    /\ lists.frames_list[1].transform_matrix # lists.frames_list[2].transform_matrix
    /\ lists.frames_list[3].transform_matrix =
         disk.files[RenderImagePath(script, args, 2)].pose


(***************************************************************************)
(* C11: the camera path of split = 'test'                                  *)
(***************************************************************************)
\* a pose has been assigned in this iteration (by both runs)
PoseAssigned == pc \in {"look_at", "render", "record"}

\* C11, as stated: in google-renderer.py and in shark-render2.py, two runs with
\* split = 'test' and the same num and radius assign the same camera location
\* at every pose.
C11_TestPathDeterministic ==
    (script \in {"google", "shark2"} /\ args.split = "test" /\ PoseAssigned)
        => twin = camera.location

\* What the two scripts do: in google-renderer.py two runs with split = 'test'
\* and the same num and radius assign the same camera location at every pose
\* and make no draw, and a draw is made only for split = 'train'; in
\* shark-render2.py every pose of every split is drawn at random.
SplitSelectsPathInGoogleOnly ==
    PoseAssigned =>
        /\ (script = "google" /\ args.split = "test")
              => (twin = camera.location /\ draw = << >>
                    /\ camera.location = SpiralPos(args.radius, args.num, i))
        /\ (script = "google" /\ draw # << >>) => args.split = "train"
        /\ script = "shark2" => draw # << >>

\* two google-renderer.py runs with split = 'test' at the same pose
GoogleTestRunsAgree ==
    /\ script = "google" /\ args.split = "test"
    /\ pc = "look_at" /\ i = 2
    /\ twin = camera.location /\ twin = SpiralPos(args.radius, args.num, 2)

\* two shark-render2.py runs with split = 'test' that part ways
SharkTestRunsDiffer ==
    /\ script = "shark2" /\ args.split = "test"
    /\ PoseAssigned /\ twin # camera.location


(***************************************************************************)
(* C12: the parallel collections of the loop                               *)
(***************************************************************************)
\* lists l hold exactly the poses 0 .. n - 1, entry for entry
ListsHoldPoses(l, n) ==
    /\ Len(l.extrinsics_list) = n
    /\ Len(l.intrinsics_list) = n
    /\ script # "intrinsics" => Len(l.frames_list) = n
    /\ script = "google" => Len(l.camera_positions) = n
    /\ \A k \in 1..n :
         LET path == RenderImagePath(script, args, k - 1)
             pose == l.extrinsics_list[k].transform_matrix
         IN  /\ l.extrinsics_list[k].frame = ImageName(args, k - 1)
             /\ path \in DOMAIN disk.files
             /\ disk.files[path].index = k - 1
             /\ disk.files[path].pose = pose
             /\ script # "intrinsics" =>
                    /\ l.frames_list[k].file_path = FramePath(args, k - 1)
                    /\ l.frames_list[k].transform_matrix = pose
             /\ script = "google" =>
                    /\ l.camera_positions[k] = pose.translation
                    /\ l.frames_list[k].focal_length = l.intrinsics_list[k].focal_length

\* the image names the lists carry are pairwise distinct
NamesDistinct(l) ==
    /\ \A j, k \in 1..Len(l.extrinsics_list) :
         j # k => l.extrinsics_list[j].frame # l.extrinsics_list[k].frame
    /\ \A j, k \in 1..Len(l.frames_list) :
         j # k => l.frames_list[j].file_path # l.frames_list[k].file_path

\* no image file was written twice
NoImageOverwritten ==
    \A j, k \in 1..Len(RenderedImages) : j # k => RenderedImages[j] # RenderedImages[k]

\* C12: at the end of every iteration i of render_and_save_extrinsics the
\* collections the script keeps (extrinsics_list, intrinsics_list, frames_list,
\* camera_positions) all have length i + 1, entry k of each belongs to pose k,
\* the image names they carry are pairwise distinct and no rendered image has
\* been overwritten by a later pose.
C12_ParallelLists ==
    [][pc = "record" =>
          /\ ListsHoldPoses(lists', i + 1)
          /\ NamesDistinct(lists')
          /\ Len(RenderedImages) = i + 1
          /\ NoImageOverwritten]_vars

C12_Witness ==
    /\ script = "google" /\ RandomBranch(script, args)
    /\ pc = "place" /\ i = 2
    /\ Len(lists.camera_positions) = 2
    /\ lists.camera_positions[1] # lists.camera_positions[2]
    /\ ListsHoldPoses(lists, 2)

====
